---- MODULE Spec2Model ----
(***************************************************************************)
(* Capture session of the ZWO ASI camera unit (src/src/CameraUnit_ASI.cpp) *)
(* as a state machine: the session object, the capture worker threads it   *)
(* launches, one client thread that calls the control paths, and the       *)
(* camera behind the ASI SDK calls.                                        *)
(*                                                                         *)
(* Exposure times are integers in microseconds.  An SDK call either        *)
(* returns an error and changes nothing, or succeeds and has its effect.   *)
(***************************************************************************)
EXTENDS Integers, Sequences, FiniteSets, TLC

\* ---------------------------------------------------------------- bounds
\* number of capture worker threads that may exist at the same time
MaxWorkers == 2
\* ASICameraInfo.MaxWidth / MaxHeight of the modelled sensor, in pixels
CCDWidth_ == 64
CCDHeight_ == 32

\* ------------------------------------------------- sensor / program data
\* ASICameraInfo.SupportedBins: the supported bin factors, 0 fills the rest
supportedBins == <<1, 2, 0, 0, 0, 0, 0, 0, 0, 0, 0, 0, 0, 0, 0, 0>>
\* minExposure / maxExposure in microseconds (0.001 s and 200 s)
minExposure == 1000
maxExposure == 200000000
\* poll interval thresholds of CaptureThread, in microseconds
ShortExposureLimit == 16000
SubSecondExposureLimit == 1000000
\* image size granularity required by the USB2 ASI120
ASI120SizeMultiple == 1024

\* the largest pixel value, 0xFFFF
MaxPixel == 65535

\* the number of calls made on the two buffers of a run
MaxCalls == 2

\* ------------------------------------------------------- argument values
\* CImageData: sizes, pixel values, pixel patterns and exposure times
ShapeArgs == {<<0, 0>>, <<2, 2>>, <<3, 2>>, <<4, 2>>}
ConstructArgs == {<<0, 2>>, <<-1, 2>>, <<2, 2>>}
BufNames == {"A", "B"}
\* DirNamePrefix: none, the default directory, a directory, no directory
DirArgs == {"", "./fits/", "out", "nodir"}
\* the file name the format and its arguments give
NameArgs == {"img", "cal"}
\* exposure times of FindOptimumExposure, in tenths of a millisecond:
\* 1.5 ms, 1 s, 1.0003 s, 3 s
OptExposureArgs == {15, 10000, 10003, 30000}
\* maxAllowedExposure: 2 s and the default of 10 s
MaxExposureArgs == {20000, 100000}
\* binX, binY of the image, and maxAllowedBin
OptBinArgs == {<<1, 1>>, <<2, 2>>, <<8, 8>>, <<2, 1>>}
MaxBinArgs == {-1, 4}
PercentileArgs == {50, 100}
PixelTargetArgs == {40000, 24000}
ExclusionArgs == {0, 1, 6}
\* what a read outside the sorted copy gives: a fault (-1) or any pixel value
WildArgs == {-1, 0, 65535}
UncertaintyArgs == {5000, 1}
\* what fails in a SaveFits call: nothing, mkdir, a cfitsio write
FitsFaults == {"none", "mkdir", "write"}
PixelArgs == <<0, 20000, 40000>>
SeedArgs == {0, 1}
BufExposureArgs == {1, 2}
ImageBinArgs == {<<1, 1>>, <<2, 2>>, <<3, 3>>, <<2, 1>>}
ExposureArgs == {500, 1000, 2000000}
\* exposures in each band of the poll loop, microseconds
BandExposureArgs == {1000, 50000, 2000000}
CaptureBinArgs == {<<2, 2>>, <<1, 2>>}
BinArgs == {<<1, 1>>, <<2, 2>>, <<1, 2>>, <<3, 3>>, <<0, 0>>}
XMinArgs == {0, 2, 33}
XMaxArgs == {0}
YMinArgs == {0}
YMaxArgs == {0}
\* the SDK call of SetBinningAndROI that returns an error ("trap": none
\* does and a division by zero raises SIGFPE)
RoiFaults == {"none", "get", "set", "pos", "pos+restore", "trap"}


\* --------------------------------------------------------- status texts
StQueryFailed == "Failed to get exposure status"
StAlreadyWorking == "Exposure already in progress"
StRestarting == "Last exposure attempt failed, restarting exposure"
StArmFailed == "Failed to start exposure"
StStarted == "Exposure started, waiting"
StExposureFailed == "Exposure failed"
StNoData == "Exposure was successful but no data is available."
StDownloading == "Exposure successful, downloading image"
StDownloadFailed == "Failed to download image"
StDownloaded == "Image downloaded"
StUnknown == "Unknown exposure status"
StSetExposure == "Set exposure"
StSetExposureFailed == "Failed to set exposure"
StInitialized == "Camera initialized"

VARIABLES
    init_ok,      \* std::atomic<bool> init_ok
    alive,        \* FALSE once the process was killed by a signal
    isASI120,     \* !isUSB3 && cam_name contains "ASI120"
    capturing,    \* std::atomic<bool> capturing
    status_,      \* std::string status_
    image_data,   \* std::shared_ptr<CImageData>: <<>> (null) or <<image>>
    exposure_,    \* std::atomic<double> exposure_, in microseconds
    roiLeft, roiRight, roiTop, roiBottom,
    binningX_, binningY_,
    waiting,      \* the worker threads blocked on camLock, by their arguments
    worker,       \* the worker thread that holds camLock; pc "none": nobody
    hw,           \* the camera: exposure status, ROI format, exposure
    clientPc,     \* "idle", "join" (in a blocking CaptureImage), "setexp"
    clientData,   \* CImageData data, the local of a blocking CaptureImage
    clientArg,    \* the argument of the call the client is blocked in
    lastCall,     \* the control call that ended in the last step, if any
    reader,       \* the pointer a second thread got from GetLastImage
    bufA, bufB,   \* two CImageData objects outside the session
    copyPc,       \* the position of the two threads that assign bufA, bufB
    files,        \* the names of the files that exist in the directory
    benchCall,    \* the CImageData call that ended in the last step, if any
    preview       \* convert_jpeg and m_jpegData of bufA: <<flag, <<>> or <<bitmap>>>>

\* the state of the two CImageData objects and of the directory
benchVars == <<bufA, bufB, copyPc, files, benchCall, preview>>

vars == <<init_ok, alive, isASI120, capturing, status_, image_data, exposure_,
          roiLeft, roiRight, roiTop, roiBottom, binningX_, binningY_,
          waiting, worker, hw, clientPc, clientData, clientArg, lastCall,
          reader, benchVars>>

roiVars == <<roiLeft, roiRight, roiTop, roiBottom, binningX_, binningY_>>
sessionVars == <<init_ok, isASI120, capturing, status_, image_data, exposure_,
                 roiVars>>
threadVars == <<waiting, worker>>
clientVars == <<clientPc, clientData, clientArg>>
\* the session, its threads, its client and the camera
camVars == <<sessionVars, threadVars, hw, clientVars, alive, lastCall,
             reader>>

\* ---------------------------------------------------------------- helpers
\* C integer division truncates towards zero
CDiv(a, b) ==
    IF a >= 0 THEN a \div b ELSE -((-a) \div b)

B2N(b) ==
    IF b THEN 1 ELSE 0

\* CImageData(): no pixel array, zero dimensions
EmptyImage ==
    [w |-> 0, h |-> 0, exposureTime |-> 0,
     binX |-> 0, binY |-> 0, imgLeft |-> 0, imgTop |-> 0]

\* CImageData(w, h, ptr, metadata): empty when a dimension is not positive
NewImage(w, h, exposure, bx, by, left, top) ==
    IF w <= 0 \/ h <= 0
    THEN EmptyImage
    ELSE [w |-> w, h |-> h, exposureTime |-> exposure,
          binX |-> bx, binY |-> by, imgLeft |-> left, imgTop |-> top]

HasData(img) ==
    img.w > 0 /\ img.h > 0

\* the arguments of CaptureThread: <<blocking, a callback was passed>>
ThreadArgs == BOOLEAN \X BOOLEAN

NoWorker ==
    [pc |-> "none", blocking |-> FALSE, userCb |-> FALSE,
     callback_fn |-> FALSE, status |-> "IDLE", sleepMs |-> 0, cbCount |-> 0,
     outcome |-> "none", pollErr |-> FALSE, cancelled |-> FALSE,
     prevImage |-> <<>>]

\* std::mutex camLock is held by the worker that got past its lock_guard
camLock ==
    worker.pc # "none"

\* the worker threads that exist: launched and not yet returned
ThreadsAlive ==
    waiting[<<TRUE, TRUE>>] + waiting[<<TRUE, FALSE>>]
    + waiting[<<FALSE, TRUE>>] + waiting[<<FALSE, FALSE>>]
    + (IF camLock THEN 1 ELSE 0)

Call(op, args, outcome, ret, sdk) ==
    [outcome |-> outcome, op |-> op, args |-> args, ret |-> ret, sdk |-> sdk]

\* no control call ended in the last step
NoCall ==
    Call("none", <<>>, "returned", EmptyImage, <<>>)

\* ------------------------------------------------------------ CImageData
\* a CImageData object: m_imageWidth, m_imageHeight, whether m_imageData is
\* not NULL, the pixels in row order, and the metadata that is compared
Buf(w, h, alloc, px, exposureTime, binX, binY, imgLeft, imgTop) ==
    [w |-> w, h |-> h,
     exposureTime |-> exposureTime, binX |-> binX, binY |-> binY,
     imgLeft |-> imgLeft, imgTop |-> imgTop, alloc |-> alloc, px |-> px]

\* bool HasData() const { return m_imageData != NULL; }
BufHasData(b) ==
    b.alloc

\* ClearImage(): the array is deleted, the size and the origin are zeroed,
\* the rest of the metadata stays
BufClear(b) ==
    [b EXCEPT !.w = 0, !.h = 0, !.alloc = FALSE, !.px = <<>>,
              !.imgLeft = 0, !.imgTop = 0]

\* CImageData(w, h, imageData, metadata): ClearImage(), then nothing more
\* when a dimension is not positive, else the array, the size, the metadata
BufNew(w, h, px, exposureTime, binX, binY, imgLeft, imgTop) ==
    IF w <= 0 \/ h <= 0
    THEN Buf(0, 0, FALSE, <<>>, 0, 0, 0, 0, 0)
    ELSE Buf(w, h, TRUE, px, exposureTime, binX, binY, imgLeft, imgTop)

\* operator=(rhs) for &rhs # this: ClearImage(), then the copy of the array,
\* the size and the metadata unless rhs has no size or no array
BufAssign(lhs, rhs) ==
    IF rhs.w = 0 \/ rhs.h = 0 \/ ~rhs.alloc
    THEN BufClear(lhs)
    ELSE rhs

SaturateNever(v) ==
    v

\* the saturation of a sum to 16 bits
Saturate(v) ==
    IF v > MaxPixel THEN MaxPixel ELSE v

\* Add(rhs)
BufAdd(a, b) ==
    IF ~BufHasData(b) THEN a
    ELSE IF ~BufHasData(a) THEN BufAssign(a, b)
    ELSE IF b.w # a.w \/ b.h # a.h THEN a
    ELSE [a EXCEPT
            !.px = [i \in 1..(a.w * a.h) |-> Saturate(a.px[i] + b.px[i])],
            !.exposureTime = a.exposureTime + b.exposureTime]

\* the pixel of row r, column c (from 0)
At(b, r, c) ==
    b.px[r * b.w + c + 1]

\* the value the loops of ApplyBinning leave in the target pixel (R, C):
\* the source pixels are added one by one, each sum saturated
RECURSIVE Accumulate(_, _, _)
Accumulate(b, cells, acc) ==
    IF cells = <<>> THEN acc
    ELSE Accumulate(b, Tail(cells),
                    Saturate(acc + At(b, Head(cells)[1], Head(cells)[2])))

SourceCellsFirstRow(R, C, binX, binY) ==
    [k \in 1..binX |-> <<R * binY, C * binX + (k - 1)>>]

\* the source pixels of target pixel (R, C) in the order the loops visit them
SourceCells(R, C, binX, binY) ==
    [k \in 1..(binX * binY) |->
        <<R * binY + ((k - 1) \div binX), C * binX + ((k - 1) % binX)>>]

\* ApplyBinning(binX, binY) for positive bin factors
BufBin(b, binX, binY) ==
    IF ~BufHasData(b) THEN b
    ELSE IF binX = 1 /\ binY = 1 THEN b
    ELSE LET newImageWidth == b.w \div binX
             newImageHeight == b.h \div binY
         IN [b EXCEPT
               !.w = newImageWidth,
               !.h = newImageHeight,
               !.px = [i \in 1..(newImageWidth * newImageHeight) |->
                         Accumulate(b,
                            SourceCells((i - 1) \div newImageWidth,
                                        (i - 1) % newImageWidth, binX, binY),
                            0)]]

\* FlipHorizontal(): std::reverse of every row
BufFlip(b) ==
    [b EXCEPT !.px = [i \in 1..(b.w * b.h) |->
                        At(b, (i - 1) \div b.w, b.w - 1 - ((i - 1) % b.w))]]

\* the pixels of a sample buffer
SamplePixels(w, h, seed) ==
    [i \in 1..(w * h) |-> PixelArgs[((seed + i * (seed + 1)) % Len(PixelArgs)) + 1]]

\* the buffers a run starts from: constructed with a size of ShapeArgs
SampleBufs ==
    {BufNew(sh[1], sh[2], SamplePixels(sh[1], sh[2], seed), e, 1, 1, 2, 3) :
        sh \in ShapeArgs, seed \in SeedArgs, e \in BufExposureArgs}

\* the record of a CImageData call: the object it was made on, its
\* arguments, that object and the other one before the call, its result
BenchCall(n, op, target, args, pre, other, ret, outcome) ==
    [outcome |-> outcome, op |-> op, args |-> args, ret |-> ret, n |-> n,
     target |-> target, pre |-> pre, other |-> other]

NoBuf ==
    Buf(0, 0, FALSE, <<>>, 0, 0, 0, 0, 0)

NoBenchCall ==
    BenchCall(0, "none", "", <<>>, NoBuf, NoBuf, FALSE, "returned")

\* no preview: convert_jpeg is false and m_jpegData is null
NoPreview ==
    <<FALSE, <<>>>>

InitBench ==
    /\ bufA = Buf(0, 0, FALSE, <<>>, 0, 0, 0, 0, 0)
    /\ bufB = Buf(0, 0, FALSE, <<>>, 0, 0, 0, 0, 0)
    /\ copyPc = <<"idle", "idle">>
    /\ files = {}
    /\ benchCall = NoBenchCall
    /\ preview = NoPreview

\* ------------------------------------------- operations on two buffers
BufOf(t) ==
    IF t = "A" THEN bufA ELSE bufB

Other(t) ==
    IF t = "A" THEN "B" ELSE "A"

\* buffer t becomes b, by the call op(args)
BufStep(t, op, args, b) ==
    /\ copyPc = <<"idle", "idle">>
    /\ benchCall.n < MaxCalls
    /\ bufA' = IF t = "A" THEN b ELSE bufA
    /\ bufB' = IF t = "B" THEN b ELSE bufB
    /\ benchCall' = BenchCall(benchCall.n + 1, op, t, args,
                               BufOf(t), BufOf(Other(t)), TRUE, "returned")
    /\ UNCHANGED <<camVars, copyPc, files, preview>>

\* t = CImageData(w, h, pixels, metadata) on a fresh object
ImgConstruct(t, w, h, seed) ==
    BufStep(t, "Construct", <<w, h>>,
            BufNew(w, h, SamplePixels(w, h, seed), 1, 1, 1, 0, 0))

\* t = other, and t = t
ImgAssign(t, self) ==
    BufStep(t, "Assign", <<B2N(self)>>,
            IF self THEN BufOf(t) ELSE BufAssign(BufOf(t), BufOf(Other(t))))

ImgAdd(t) ==
    BufStep(t, "Add", <<>>, BufAdd(BufOf(t), BufOf(Other(t))))

ImgBin(t, binX, binY) ==
    BufStep(t, "ApplyBinning", <<binX, binY>>, BufBin(BufOf(t), binX, binY))

ImgFlip(t) ==
    BufStep(t, "FlipHorizontal", <<>>, BufFlip(BufOf(t)))

ImgClear(t) ==
    BufStep(t, "ClearImage", <<>>, BufClear(BufOf(t)))

\* ------------------------------------- two threads assigning A = B, B = A
\* thread 1 runs A = B and thread 2 runs B = A; a thread that is "locked"
\* holds m_mutex of both objects
OtherThread(t) ==
    3 - t

ThreadTarget(t) ==
    IF t = 1 THEN "A" ELSE "B"

\* both mutexes are free
MutexesFree ==
    copyPc[1] # "locked" /\ copyPc[2] # "locked"

AssignStep(t, pc, b) ==
    /\ copyPc' = [copyPc EXCEPT ![t] = pc]
    /\ bufA' = IF t = 1 THEN b ELSE bufA
    /\ bufB' = IF t = 2 THEN b ELSE bufB
    /\ UNCHANGED <<camVars, files, benchCall, preview>>

\* operator=(rhs) with &rhs == this: returns at once
AssignSelf(t) ==
    /\ copyPc[t] = "idle"
    /\ AssignStep(t, "self", BufOf(ThreadTarget(t)))

\* operator=(rhs): ClearImage() under the object's own mutex
AssignClear(t) ==
    /\ copyPc[t] = "idle"
    /\ MutexesFree
    /\ AssignStep(t, "cleared", BufClear(BufOf(ThreadTarget(t))))

\* std::lock(lock1, lock2): both mutexes, or none
AssignLock(t) ==
    /\ copyPc[t] = "cleared"
    /\ MutexesFree
    /\ AssignStep(t, "locked", BufOf(ThreadTarget(t)))

\* the copy made with both mutexes held, and their release on return
AssignCopy(t) ==
    /\ copyPc[t] = "locked"
    /\ AssignStep(t, "done",
                  LET lhs == BufOf(ThreadTarget(t))
                      rhs == BufOf(Other(ThreadTarget(t)))
                  IN IF rhs.w = 0 \/ rhs.h = 0 \/ ~rhs.alloc
                     THEN lhs ELSE rhs)

\* ------------------------------------------------------------ SaveFits
defaultDirPrefix == "./fits/"

\* a directory, and a file of a directory: its name is the resolved name, a
\* counter (0 for none) and an extension
DirEntry(dir) ==
    <<dir, "", 0, "dir">>

FileEntry(dir, fname, ctr, ext) ==
    <<dir, fname, ctr, ext>>

\* the paths that exist: files is a set of <<path, writing call, complete>>
Paths(fs) ==
    {f[1] : f \in fs}

\* the loop at 854-867: the first counter for which fopen(full_name, "r")
\* finds no file; full_name has no extension yet
RECURSIVE FreeCounter(_, _, _, _)
FreeCounter(fs, dir, fname, ctr) ==
    IF FileEntry(dir, fname, ctr, "") \in Paths(fs)
    THEN FreeCounter(fs, dir, fname, ctr + 1)
    ELSE ctr

\* fits_create_file: refuses a file that exists, needs the directory
CanCreate(fs, path) ==
    /\ path \notin Paths(fs)
    /\ DirEntry(path[1]) \in Paths(fs)

\* the files after the default directory was made where it was missing
AfterMkdir(fs, dir, fault) ==
    IF dir = defaultDirPrefix /\ DirEntry(dir) \notin Paths(fs) /\ fault # "mkdir"
    THEN fs \cup {<<DirEntry(dir), 0, TRUE>>}
    ELSE fs

SaveFitsDone(args, fs, ret, outcome) ==
    /\ files' = fs
    /\ benchCall' = BenchCall(benchCall.n + 1, "SaveFits", "A", args,
                              bufA, bufB, ret, outcome)
    /\ UNCHANGED <<camVars, bufA, bufB, copyPc, preview>>

\* SaveFits(syncOnWrite, DirNamePrefix, fileNameFormat, ...) on buffer A.
\* crash: what std::string(DirPrefix) does for the null DirPrefix
SaveFits(dir, fname, fault, crash) ==
    /\ benchCall.n < MaxCalls
    /\ LET args == <<dir, fname, fault>>
           made == AfterMkdir(files, dir, fault)
           ctr == FreeCounter(made, dir, fname, 0)
           path == FileEntry(dir, fname, ctr, ".fits")
       IN IF dir = ""
          THEN SaveFitsDone(args, files, FALSE, crash)
          ELSE IF dir = defaultDirPrefix /\ DirEntry(dir) \notin Paths(made)
          THEN SaveFitsDone(args, files, FALSE, "returned")
          ELSE IF ~CanCreate(made, path)
          THEN SaveFitsDone(args, made, FALSE, "returned")
          ELSE SaveFitsDone(args,
                            made \cup {<<path, benchCall.n + 1, fault # "write">>},
                            TRUE, "returned")

\* --------------------------------------------------- FindOptimumExposure
\* the exposure times of this part count tenths of a millisecond
TicksPerMs == 10

\* the float a division by val = 0 gives
Infinity == 1000000000

Abs(x) ==
    IF x < 0 THEN -x ELSE x

Min(x, y) ==
    IF x < y THEN x ELSE y

\* qsort(picdata, m_imageSize, ..., _compare_uint16): ascending
RECURSIVE Insert(_, _)
Insert(x, s) ==
    IF s = <<>> THEN <<x>>
    ELSE IF x <= Head(s) THEN <<x>> \o s
    ELSE <<Head(s)>> \o Insert(x, Tail(s))

RECURSIVE SortPixels(_)
SortPixels(s) ==
    IF s = <<>> THEN <<>> ELSE Insert(Head(s), SortPixels(Tail(s)))

\* the index at which picdata is read (an integer percentile here). coord is
\* an unsigned int in the source: a negative value here stands for that
\* value plus 2^32, which is as far outside the array
PercentileIndex(b, percentilePixel, numPixelExclusion) ==
    LET m_imageSize == b.h * b.w
        picdata == SortPixels(b.px)
        direction == picdata[1] < picdata[m_imageSize]
        coord0 == IF percentilePixel >= 100 THEN m_imageSize - 1
                  ELSE (percentilePixel * (m_imageSize - 1)) \div 100
        validPixelCoord == m_imageSize - 1 - coord0
        coord == IF validPixelCoord < numPixelExclusion
                 THEN m_imageSize - 1 - numPixelExclusion ELSE coord0
    IN IF direction THEN coord
       ELSE m_imageSize - (IF coord = 0 THEN 1 ELSE coord)

\* the index is one of picdata[0 .. m_imageSize - 1]
IndexInRange(b, index) ==
    0 <= index /\ index <= b.h * b.w - 1

\* val: the pixel value at the percentile, picdata[i] of the source being
\* picdata[i + 1]; wild is what a read outside the array gives
PercentileValue(b, percentilePixel, numPixelExclusion, wild) ==
    LET index == PercentileIndex(b, percentilePixel, numPixelExclusion)
    IN IF IndexInRange(b, index) THEN SortPixels(b.px)[index + 1] ELSE wild

\* fabs(pixelTarget - val) < pixelTargetUncertainty
InTolerance(pixelTarget, val, pixelTargetUncertainty) ==
    Abs(pixelTarget - val) < pixelTargetUncertainty

ScaleInverted(exposure, pixelTarget, val) ==
    IF pixelTarget = 0 THEN Infinity ELSE (val * exposure) \div pixelTarget

\* targetExposure = pixelTarget * exposure / val
ScaleExposure(exposure, pixelTarget, val) ==
    IF val = 0 THEN Infinity ELSE (pixelTarget * exposure) \div val

\* while (targetExposure_ < maxAllowedExposure && bin_ > 2)
RECURSIVE LowerBin(_, _, _)
LowerBin(targetExposure_, bin_, maxAllowedExposure) ==
    IF targetExposure_ < maxAllowedExposure /\ bin_ > 2
    THEN LowerBin(targetExposure_ * 4, bin_ \div 2, maxAllowedExposure)
    ELSE <<targetExposure_, bin_>>

\* while (targetExposure_ > maxAllowedExposure && bin_ * 2 <= maxAllowedBin)
RECURSIVE RaiseBin(_, _, _, _)
RaiseBin(targetExposure_, bin_, maxAllowedExposure, maxAllowedBin) ==
    IF targetExposure_ > maxAllowedExposure /\ bin_ * 2 <= maxAllowedBin
    THEN RaiseBin(IF targetExposure_ = Infinity THEN Infinity
                  ELSE targetExposure_ \div 4,
                  bin_ * 2, maxAllowedExposure, maxAllowedBin)
    ELSE <<targetExposure_, bin_>>

\* ((int)(targetExposure * 1000)) * 0.001
TruncateMs(targetExposure) ==
    (targetExposure \div TicksPerMs) * TicksPerMs

\* FindOptimumExposure(targetExposure, bin, ...) of a buffer with pixels:
\* the values it leaves in targetExposure and bin
FindOptimumExposure(b, percentilePixel, pixelTarget, maxAllowedExposure, maxAllowedBin, numPixelExclusion, pixelTargetUncertainty, wild) ==
    LET exposure == b.exposureTime
        changeBin == b.binX = b.binY /\ maxAllowedBin >= 0
        val == PercentileValue(b, percentilePixel, numPixelExclusion, wild)
        scaled == ScaleExposure(exposure, pixelTarget, val)
        atRet == IF InTolerance(pixelTarget, val, pixelTargetUncertainty)
                 THEN <<exposure, b.binX>>
                 ELSE IF ~changeBin THEN <<scaled, b.binX>>
                 ELSE IF scaled < maxAllowedExposure
                 THEN LowerBin(scaled, b.binX, maxAllowedExposure)
                 ELSE RaiseBin(scaled, b.binX, maxAllowedExposure,
                               maxAllowedBin)
        bin1 == IF atRet[2] < 1 THEN 1 ELSE atRet[2]
    IN <<TruncateMs(Min(atRet[1], maxAllowedExposure)),
         IF bin1 > maxAllowedBin THEN maxAllowedBin ELSE bin1>>

\* a FindOptimumExposure call on buffer A: with bin, or the overload without
\* it, which passes a maxAllowedBin of -1 and drops the bin. The call
\* leaves the buffer as it is, so one call is made on each. A read outside
\* picdata faults (wild < 0) or gives the value wild
OptimumCall(withBin, percentilePixel, pixelTarget, maxAllowedExposure, maxAllowedBin, numPixelExclusion, pixelTargetUncertainty, wild) ==
    /\ benchCall.op = "none"
    /\ BufHasData(bufA)
    /\ LET index == PercentileIndex(bufA, percentilePixel, numPixelExclusion)
           faults == ~IndexInRange(bufA, index) /\ wild < 0
           out == IF faults THEN <<0, 0>>
                  ELSE FindOptimumExposure(bufA, percentilePixel, pixelTarget,
                           maxAllowedExposure,
                           IF withBin THEN maxAllowedBin ELSE -1,
                           numPixelExclusion, pixelTargetUncertainty, wild)
       IN benchCall' = BenchCall(benchCall.n + 1,
                          IF withBin THEN "FindOptimumExposure"
                          ELSE "FindOptimumExposureNoBin",
                          "A",
                          <<out[1], IF withBin THEN out[2] ELSE 0,
                            percentilePixel, pixelTarget, maxAllowedExposure,
                            IF withBin THEN maxAllowedBin ELSE -1,
                            numPixelExclusion, pixelTargetUncertainty,
                            IF IndexInRange(bufA, index) THEN 0 ELSE wild>>,
                          bufA, bufB, ~faults,
                          IF faults THEN "crashed" ELSE "returned")
    /\ UNCHANGED <<camVars, bufA, bufB, copyPc, files, preview>>

InitCam ==
    /\ init_ok = TRUE
    /\ alive = TRUE
    /\ isASI120 \in BOOLEAN
    /\ capturing = FALSE
    /\ status_ = StInitialized
    /\ image_data = <<>>
    /\ exposure_ = 1000
    /\ roiLeft = 0
    /\ roiRight = CCDWidth_
    /\ roiTop = 0
    /\ roiBottom = CCDHeight_
    /\ binningX_ = 1
    /\ binningY_ = 1
    /\ waiting = [a \in ThreadArgs |-> 0]
    /\ worker = NoWorker
    /\ hw = [w |-> CCDWidth_, h |-> CCDHeight_, exposure |-> 1000,
             status |-> "IDLE", bin |-> 1, x |-> 0, y |-> 0]
    /\ clientPc = "idle"
    /\ clientData = EmptyImage
    /\ clientArg = 0
    /\ lastCall = NoCall
    /\ reader = "none"

Init ==
    /\ InitCam
    /\ InitBench

\* --------------------------------------------------------- the camera
\* bin factors the sensor supports: the non-zero entries of supportedBins
SupportedBinSet ==
    {supportedBins[i] : i \in 1..16} \ {0}

\* the camera refuses a ROI format that is not a supported bin factor with
\* a positive size inside the sensor
HwAcceptsFormat(w, h, bin) ==
    /\ bin \in SupportedBinSet
    /\ w > 0 /\ h > 0
    /\ w * bin <= CCDWidth_ /\ h * bin <= CCDHeight_

\* the camera refuses a start position that puts the ROI outside the sensor
HwAcceptsStartPos(x, y, w, h, bin) ==
    /\ x >= 0 /\ y >= 0
    /\ (x + w) * bin <= CCDWidth_ /\ (y + h) * bin <= CCDHeight_

\* the exposure runs to an end by itself
HwProgress(s) ==
    /\ alive
    /\ hw.status = "WORKING"
    /\ hw' = [hw EXCEPT !.status = s]
    /\ lastCall' = NoCall
    /\ UNCHANGED <<sessionVars, threadVars, clientVars, alive,
                   reader, benchVars>>

\* ------------------------------------------------------- CaptureImage
\* CaptureImage without the check of the capturing flag
CaptureNeverRejected ==
    FALSE

CaptureRejected ==
    capturing

\* a worker thread that gets the callback of a blocking call too
ThreadCallbackAlways(blocking, callback_fn) ==
    callback_fn

\* the callback handed to the worker thread
ThreadCallback(blocking, callback_fn) ==
    IF blocking THEN FALSE ELSE callback_fn

CaptureImage(blocking, callback_fn) ==
    /\ alive /\ init_ok
    /\ clientPc = "idle"
    /\ IF CaptureRejected
       THEN /\ lastCall' = Call("CaptureImage",
                                <<B2N(blocking), B2N(callback_fn)>>,
                                "returned", EmptyImage, <<>>)
            /\ UNCHANGED <<waiting, clientVars>>
       ELSE /\ ThreadsAlive < MaxWorkers
            /\ waiting' = [waiting EXCEPT ![<<blocking, callback_fn>>] = @ + 1]
            /\ IF blocking
               THEN /\ clientPc' = "join"
                    /\ clientData' = EmptyImage
                    /\ clientArg' = B2N(callback_fn)
                    /\ lastCall' = NoCall
               ELSE /\ lastCall' = Call("CaptureImage",
                                        <<B2N(blocking), B2N(callback_fn)>>,
                                        "returned", EmptyImage, <<>>)
                    /\ UNCHANGED clientVars
    /\ UNCHANGED <<sessionVars, worker, hw, alive,
                   reader, benchVars>>

\* captureThread.join() returns; CaptureImage returns data
JoinReturn ==
    /\ alive
    /\ clientPc = "join"
    /\ waiting[<<TRUE, TRUE>>] + waiting[<<TRUE, FALSE>>] = 0
    /\ ~(camLock /\ worker.blocking)
    /\ lastCall' = Call("CaptureImage", <<1, clientArg>>,
                        "returned", clientData, <<>>)
    /\ clientPc' = "idle"
    /\ clientData' = EmptyImage
    /\ clientArg' = 0
    /\ UNCHANGED <<sessionVars, threadVars, hw, alive,
                   reader, benchVars>>

\* ------------------------------------------------------- CaptureThread
PollIntervalFlat(exposure) == 100

PollInterval(exposure) ==
    IF exposure < ShortExposureLimit THEN 1
    ELSE IF exposure < SubSecondExposureLimit THEN 100
    ELSE 1000

\* a return of CaptureThread that leaves the capturing flag as it is
FinishKeepsFlag(outcome, text) ==
    /\ worker' = [worker EXCEPT !.pc = "unlock", !.outcome = outcome]
    /\ status_' = text
    /\ UNCHANGED capturing

\* a return of CaptureThread: status text, capturing = false
Finish(outcome, text) ==
    /\ worker' = [worker EXCEPT !.pc = "unlock", !.outcome = outcome]
    /\ status_' = text
    /\ capturing' = FALSE

\* std::lock_guard lock(cam->camLock), long exposure = cam->exposure_ * 1e6,
\* and the first ASIGetExpStatus, before the exposure is armed
WorkerStart(args, ok) ==
    /\ alive
    /\ waiting[args] > 0
    /\ ~camLock
    /\ waiting' = [waiting EXCEPT ![args] = @ - 1]
    /\ LET started == [NoWorker EXCEPT
                          !.blocking = args[1],
                          !.userCb = args[2],
                          !.callback_fn = ThreadCallback(args[1], args[2]),
                          !.sleepMs = PollInterval(exposure_),
                          !.prevImage = image_data]
       IN IF ~ok
          THEN /\ worker' = [started EXCEPT !.pc = "unlock",
                                            !.outcome = "query_error"]
               /\ status_' = StQueryFailed
               /\ capturing' = FALSE
          ELSE IF hw.status = "WORKING"
          THEN /\ worker' = [started EXCEPT !.pc = "unlock",
                                            !.outcome = "already_working"]
               /\ status_' = StAlreadyWorking
               /\ capturing' = FALSE
          ELSE /\ worker' = [started EXCEPT !.pc = "arm",
                                            !.status = hw.status]
               /\ status_' = IF hw.status = "FAILED" THEN StRestarting
                             ELSE status_
               /\ UNCHANGED capturing
    /\ lastCall' = NoCall
    /\ UNCHANGED <<init_ok, isASI120, image_data, exposure_, roiVars,
                   hw, clientVars, alive,
                   reader, benchVars>>

\* ASIStartExposure and what follows it up to the poll loop
ArmExposure(ok) ==
    /\ alive
    /\ worker.pc = "arm"
    /\ IF ~ok
       THEN /\ Finish("arm_failed", StArmFailed)
            /\ UNCHANGED hw
       ELSE /\ worker' = [worker EXCEPT !.pc = "poll"]
            /\ capturing' = TRUE
            /\ status_' = StStarted
            /\ hw' = [hw EXCEPT !.status = "WORKING"]
    /\ lastCall' = NoCall
    /\ UNCHANGED <<init_ok, isASI120, image_data, exposure_, roiVars,
                   waiting, clientVars, alive, reader>>

\* ASIStartExposure
WorkerArm(ok) ==
    /\ ArmExposure(ok)
    /\ UNCHANGED benchVars

\* exposure_, the ROI and the bin factors of the session
SessionConfig ==
    <<exposure_, roiLeft, roiRight, roiTop, roiBottom, binningX_, binningY_>>

\* ASIStartExposure, with a note of the session's configuration at the
\* moment the exposure is armed
WorkerArmNoted(ok) ==
    /\ ArmExposure(ok)
    /\ benchCall' = IF ok
                    THEN BenchCall(0, "ASIStartExposure", "", SessionConfig,
                                   NoBuf, NoBuf, TRUE, "returned")
                    ELSE benchCall
    /\ UNCHANGED <<bufA, bufB, copyPc, files, preview>>

\* one round of the poll loop and, when the loop ends, the branch on status;
\* a failed ASIGetExpStatus leaves status as the previous call set it
WorkerPoll(ok) ==
    /\ alive
    /\ worker.pc = "poll"
    /\ LET st == IF ok THEN hw.status ELSE worker.status
           end(outcome) == [worker EXCEPT !.pc = "unlock",
                                          !.outcome = outcome,
                                          !.status = st,
                                          !.pollErr = ~ok]
       IN IF ok /\ st = "WORKING"
          THEN /\ worker' = [worker EXCEPT !.status = st]
               /\ UNCHANGED <<status_, capturing>>
          ELSE IF st = "FAILED"
          THEN /\ worker' = end("exposure_failed")
               /\ status_' = StExposureFailed
               /\ capturing' = FALSE
          ELSE IF st = "IDLE"
          THEN /\ worker' = end("no_data")
               /\ status_' = StNoData
               /\ capturing' = FALSE
          ELSE IF st = "SUCCESS"
          THEN /\ worker' = [worker EXCEPT !.pc = "download",
                                           !.status = st,
                                           !.pollErr = ~ok]
               /\ status_' = StDownloading
               /\ UNCHANGED capturing
          ELSE /\ worker' = end("unknown_status")
               /\ status_' = StUnknown
               /\ capturing' = FALSE
    /\ lastCall' = NoCall
    /\ UNCHANGED <<init_ok, isASI120, image_data, exposure_, roiVars,
                   waiting, hw, clientVars, alive,
                   reader, benchVars>>

\* the assignment to image_data drops the last reference to the frame it
\* held: a raw pointer to that frame now points to a deleted object
AfterRelease(ptr) ==
    IF ptr = "current" THEN "released" ELSE ptr

\* ASIGetDataAfterExp, the new CImageData, image_data, *data, and the return
\* when there is no callback; the camera has data only after a success
WorkerDownload(ok, after) ==
    /\ alive
    /\ worker.pc = "download"
    /\ IF ~(ok /\ hw.status = "SUCCESS")
       THEN /\ Finish("download_failed", StDownloadFailed)
            /\ UNCHANGED <<image_data, clientData, hw, reader>>
       ELSE LET iwid == CDiv(roiRight - roiLeft, binningX_)
                ihei == CDiv(roiBottom - roiTop, binningY_)
                imgleft == CDiv(roiLeft, binningX_)
                imgtop == CDiv(roiTop, binningY_)
                new_img == NewImage(iwid, ihei, exposure_,
                                    binningX_, binningY_, imgleft, imgtop)
            IN /\ image_data' = <<new_img>>
               /\ reader' = AfterRelease(reader)
               /\ clientData' = IF worker.blocking THEN new_img
                                ELSE clientData
               /\ status_' = StDownloaded
               /\ hw' = [hw EXCEPT !.status = after]
               /\ IF worker.callback_fn
                  THEN /\ worker' = [worker EXCEPT !.pc = "callback"]
                       /\ UNCHANGED capturing
                  ELSE /\ worker' = [worker EXCEPT !.pc = "unlock",
                                                   !.outcome = "success"]
                       /\ capturing' = FALSE
    /\ lastCall' = NoCall
    /\ UNCHANGED <<init_ok, isASI120, exposure_, roiVars, waiting,
                   clientPc, clientArg, alive, benchVars>>

\* callback_fn(new_img, roi_, user_data); cam->capturing = false
WorkerCallback ==
    /\ alive
    /\ worker.pc = "callback"
    /\ worker' = [worker EXCEPT !.pc = "unlock",
                                !.outcome = "success",
                                !.cbCount = worker.cbCount + 1]
    /\ capturing' = FALSE
    /\ lastCall' = NoCall
    /\ UNCHANGED <<init_ok, isASI120, status_, image_data, exposure_, roiVars,
                   waiting, hw, clientVars, alive,
                   reader, benchVars>>

\* a return of CaptureThread that does not release camLock
WorkerExitHoldsLock ==
    /\ alive
    /\ worker.pc = "unlock"
    /\ worker' = [worker EXCEPT !.pc = "held"]
    /\ lastCall' = NoCall
    /\ UNCHANGED <<sessionVars, waiting, hw, clientVars, alive,
                   reader, benchVars>>

\* CaptureThread returns: the lock_guard releases camLock, the thread ends
WorkerExit ==
    /\ alive
    /\ worker.pc = "unlock"
    /\ worker' = NoWorker
    /\ lastCall' = NoCall
    /\ UNCHANGED <<sessionVars, waiting, hw, clientVars, alive,
                   reader, benchVars>>

\* -------------------------------------------------------- GetLastImage
\* what image_data.get() hands out: a raw pointer to the frame image_data
\* owns, or nullptr
LastImagePointer ==
    IF image_data = <<>> THEN "null" ELSE "current"

\* a second thread calls GetLastImage and keeps the pointer
GetLastImage ==
    /\ alive /\ init_ok
    /\ reader = "none"
    /\ reader' = LastImagePointer
    /\ lastCall' = NoCall
    /\ UNCHANGED <<sessionVars, threadVars, hw, clientVars, alive, benchVars>>

\* the second thread has read the frame and lets go of the pointer
ReaderDone ==
    /\ alive
    /\ reader # "none"
    /\ reader' = "none"
    /\ lastCall' = NoCall
    /\ UNCHANGED <<sessionVars, threadVars, hw, clientVars, alive, benchVars>>

\* ------------------------------------------------------- CancelCapture
CancelCapture(ok) ==
    /\ alive
    /\ clientPc = "idle"
    /\ IF capturing
       THEN /\ hw' = IF ok /\ hw.status = "WORKING"
                     THEN [hw EXCEPT !.status = "IDLE"]
                     ELSE hw
            /\ worker' = IF worker.pc = "poll"
                         THEN [worker EXCEPT !.cancelled = TRUE]
                         ELSE worker
            /\ lastCall' = Call("CancelCapture", <<>>, "returned", EmptyImage,
                                <<IF ok THEN "ASIStopExposure:ok"
                                  ELSE "ASIStopExposure:error">>)
       ELSE /\ lastCall' = Call("CancelCapture", <<>>, "returned", EmptyImage,
                                <<>>)
            /\ UNCHANGED <<hw, worker>>
    /\ UNCHANGED <<sessionVars, waiting, clientVars, alive,
                   reader, benchVars>>

\* --------------------------------------------------------- SetExposure
\* SetExposure that stores the value whatever the camera answers
ExposureAlwaysStored(ok, exposureInSeconds, old) ==
    exposureInSeconds

ExposureAfterSet(ok, exposureInSeconds, old) ==
    IF ok THEN exposureInSeconds ELSE old

\* the range checks; a value in range goes on to wait for camLock
SetExposure(exposureInSeconds) ==
    /\ alive /\ init_ok
    /\ clientPc = "idle"
    /\ IF exposureInSeconds < minExposure \/ exposureInSeconds > maxExposure
       THEN /\ lastCall' = Call("SetExposure", <<exposureInSeconds>>,
                                "returned", EmptyImage, <<>>)
            /\ UNCHANGED clientVars
       ELSE /\ clientPc' = "setexp"
            /\ clientArg' = exposureInSeconds
            /\ lastCall' = NoCall
            /\ UNCHANGED clientData
    /\ UNCHANGED <<sessionVars, threadVars, hw, alive,
                   reader, benchVars>>

\* with camLock held: ASISetControlValue(ASI_EXPOSURE), exposure_, status_
SetExposureLocked(ok) ==
    /\ alive
    /\ clientPc = "setexp"
    /\ ~camLock
    /\ hw' = [hw EXCEPT !.exposure = ExposureAfterSet(ok, clientArg, @)]
    /\ exposure_' = ExposureAfterSet(ok, clientArg, exposure_)
    /\ status_' = IF ok THEN StSetExposure ELSE StSetExposureFailed
    /\ lastCall' = Call("SetExposure", <<clientArg>>, "returned", EmptyImage,
                        <<IF ok THEN "ASISetControlValue:ok"
                          ELSE "ASISetControlValue:error">>)
    /\ clientPc' = "idle"
    /\ clientArg' = 0
    /\ UNCHANGED <<init_ok, isASI120, capturing, image_data, roiVars,
                   threadVars, clientData, alive,
                   reader, benchVars>>

\* ---------------------------------------------------- SetBinningAndROI
\* SetBinningAndROI without the check of the bin factor
AnyBinValid(binX) ==
    TRUE

\* the loop over supportedBins[0..15]
valid_bin(binX) ==
    \E i \in 1..16 : binX = supportedBins[i]

\* x_min /= binX: a division by zero either kills the process (SIGFPE) or,
\* where the machine does not trap, goes on with a quotient of zero
Quot(a, b) ==
    IF b = 0 THEN 0 ELSE CDiv(a, b)

\* the ROI stored in binned pixels, not scaled back by the bin factor
StoredROIUnscaled(x_min, y_min, img_wid, img_height, binX, binY) ==
    <<x_min, x_min + img_wid, y_min, y_min + img_height, binX, binY>>

\* roiLeft, roiRight, roiTop, roiBottom, binningX_, binningY_ as stored
\* once every hardware step has succeeded
StoredROI(x_min, y_min, img_wid, img_height, binX, binY) ==
    <<x_min * binX, (x_min + img_wid) * binX,
      y_min * binY, (y_min + img_height) * binY, binX, binY>>

\* the ROI format on the camera after ASISetStartPos has failed: the old
\* one when the second ASISetROIFormat succeeds, else the new one
FormatAfterFailedStartPos(old, new, okRestore) ==
    IF okRestore THEN old ELSE new

\* what one call does: how it ends, the SDK calls it makes, the ROI format
\* and start position on the camera, and the stored ROI
RoiCall(binX, binY0, x_min0, x_max0, y_min0, y_max0, fault) ==
    LET okGet == fault # "get"
        okSet == fault # "set"
        okPos == fault \notin {"pos", "pos+restore"}
        okRestore == fault # "pos+restore"
        trap == fault = "trap"
        oldFmt == <<hw.w, hw.h, hw.bin>>
        oldPos == <<hw.x, hw.y>>
        oldRoi == <<roiLeft, roiRight, roiTop, roiBottom,
                    binningX_, binningY_>>
        same(outcome, sdk) == [outcome |-> outcome, sdk |-> sdk,
                               fmt |-> oldFmt, pos |-> oldPos,
                               roi |-> oldRoi]
        binY == binX
        x_max1 == IF x_max0 <= 0 THEN CCDWidth_ ELSE x_max0
        y_max1 == IF y_max0 <= 0 THEN CCDHeight_ ELSE y_max0
        x_min == Quot(x_min0, binX)
        x_max == Quot(x_max1, binX)
        y_min == Quot(y_min0, binY)
        y_max == Quot(y_max1, binY)
        img_wid == x_max - x_min
        img_height == y_max - y_min
        newFmt == <<img_wid, img_height, binX>>
    IN  IF binX # binY0
        THEN same("invalid_argument", <<>>)
        ELSE IF ~valid_bin(binX)
        THEN same("invalid_argument", <<>>)
        ELSE IF binX = 0 /\ trap
        THEN same("sigfpe", <<>>)
        ELSE IF isASI120 /\ (img_wid * img_height) % ASI120SizeMultiple # 0
        THEN same("invalid_argument", <<>>)
        ELSE IF ~okGet
        THEN same("runtime_error", <<"ASIGetROIFormat:error">>)
        ELSE IF ~(okSet /\ HwAcceptsFormat(img_wid, img_height, binX))
        THEN same("runtime_error",
                  <<"ASIGetROIFormat:ok", "ASISetROIFormat:error">>)
        ELSE IF ~(okPos /\ HwAcceptsStartPos(x_min, y_min, img_wid,
                                             img_height, binX))
        THEN [outcome |-> IF okRestore THEN "returned" ELSE "runtime_error",
              sdk |-> <<"ASIGetROIFormat:ok", "ASISetROIFormat:ok",
                        "ASISetStartPos:error",
                        IF okRestore THEN "ASISetROIFormat:ok"
                        ELSE "ASISetROIFormat:error">>,
              fmt |-> FormatAfterFailedStartPos(oldFmt, newFmt, okRestore),
              pos |-> oldPos,
              roi |-> oldRoi]
        ELSE [outcome |-> "returned",
              sdk |-> <<"ASIGetROIFormat:ok", "ASISetROIFormat:ok",
                        "ASISetStartPos:ok">>,
              fmt |-> newFmt,
              pos |-> <<x_min, y_min>>,
              roi |-> StoredROI(x_min, y_min, img_wid, img_height,
                                binX, binY)]

\* the faults that can show in a call with these bin factors
FaultsOf(binX, binY) ==
    IF binX # binY \/ ~valid_bin(binX) THEN {"none"}
    ELSE IF binX = 0 THEN {"none", "get", "trap"}
    ELSE RoiFaults \ {"trap"}

SetBinningAndROI(binX, binY, x_min, x_max, y_min, y_max, fault) ==
    /\ alive /\ init_ok
    /\ clientPc = "idle"
    /\ fault \in FaultsOf(binX, binY)
    /\ LET r == RoiCall(binX, binY, x_min, x_max, y_min, y_max, fault)
       IN /\ hw' = [hw EXCEPT !.w = r.fmt[1], !.h = r.fmt[2],
                              !.bin = r.fmt[3],
                              !.x = r.pos[1], !.y = r.pos[2]]
          /\ roiLeft' = r.roi[1]
          /\ roiRight' = r.roi[2]
          /\ roiTop' = r.roi[3]
          /\ roiBottom' = r.roi[4]
          /\ binningX_' = r.roi[5]
          /\ binningY_' = r.roi[6]
          /\ alive' = (r.outcome # "sigfpe")
          /\ lastCall' = Call("SetBinningAndROI", <<binX, binY>>,
                              r.outcome, EmptyImage, r.sdk)
    /\ UNCHANGED <<init_ok, isASI120, capturing, status_, image_data,
                   exposure_, threadVars, clientVars, reader, benchVars>>

\* ------------------------------------------------------------ the system
Next ==
    \/ \E blocking \in BOOLEAN, callback_fn \in BOOLEAN :
          CaptureImage(blocking, callback_fn)
    \/ JoinReturn
    \/ \E args \in ThreadArgs, ok \in BOOLEAN : WorkerStart(args, ok)
    \/ \E ok \in BOOLEAN : WorkerArm(ok)
    \/ \E ok \in BOOLEAN : WorkerPoll(ok)
    \/ \E ok \in BOOLEAN, after \in {"SUCCESS", "IDLE"} :
          WorkerDownload(ok, after)
    \/ WorkerCallback
    \/ WorkerExit
    \/ \E ok \in BOOLEAN : CancelCapture(ok)
    \/ \E e \in ExposureArgs : SetExposure(e)
    \/ \E ok \in BOOLEAN : SetExposureLocked(ok)
    \/ \E bins \in CaptureBinArgs :
          SetBinningAndROI(bins[1], bins[2], 0, 0, 0, 0, "none")
    \/ \E s \in {"SUCCESS", "FAILED", "IDLE"} : HwProgress(s)

\* the session under capture requests, with a few configuration requests
Spec ==
    Init /\ [][Next]_vars

NextConfig ==
    \/ \E e \in ExposureArgs : SetExposure(e)
    \/ \E ok \in BOOLEAN : SetExposureLocked(ok)
    \/ \E ok \in BOOLEAN : CancelCapture(ok)
    \/ \E bins \in BinArgs,
          x_min \in XMinArgs, x_max \in XMaxArgs,
          y_min \in YMinArgs, y_max \in YMaxArgs, fault \in RoiFaults :
          SetBinningAndROI(bins[1], bins[2], x_min, x_max, y_min, y_max,
                           fault)

\* the session under configuration requests only, no exposure running
SpecConfig ==
    Init /\ [][NextConfig]_vars

NextArmed ==
    \/ CaptureImage(FALSE, FALSE)
    \/ \E args \in ThreadArgs, ok \in BOOLEAN : WorkerStart(args, ok)
    \/ \E ok \in BOOLEAN : WorkerArmNoted(ok)
    \/ \E ok \in BOOLEAN : WorkerPoll(ok)
    \/ \E ok \in BOOLEAN, after \in {"SUCCESS", "IDLE"} :
          WorkerDownload(ok, after)
    \/ WorkerExit
    \/ \E e \in BandExposureArgs : SetExposure(e)
    \/ \E ok \in BOOLEAN : SetExposureLocked(ok)
    \/ \E bins \in CaptureBinArgs :
          SetBinningAndROI(bins[1], bins[2], 0, 0, 0, 0, "none")
    \/ \E s \in {"SUCCESS", "FAILED", "IDLE"} : HwProgress(s)

\* the session under non-blocking captures and configuration requests,
\* with the configuration noted when an exposure is armed
SpecArmed ==
    Init /\ [][NextArmed]_vars

NextReader ==
    \/ \E callback_fn \in BOOLEAN : CaptureImage(FALSE, callback_fn)
    \/ \E args \in ThreadArgs, ok \in BOOLEAN : WorkerStart(args, ok)
    \/ \E ok \in BOOLEAN : WorkerArm(ok)
    \/ \E ok \in BOOLEAN : WorkerPoll(ok)
    \/ \E ok \in BOOLEAN, after \in {"SUCCESS", "IDLE"} :
          WorkerDownload(ok, after)
    \/ WorkerCallback
    \/ WorkerExit
    \/ \E s \in {"SUCCESS", "FAILED", "IDLE"} : HwProgress(s)
    \/ GetLastImage
    \/ ReaderDone

\* the session under non-blocking captures, with a second thread that
\* reads the last image
SpecReader ==
    Init /\ [][NextReader]_vars

\* ------------------------------------------ calls made by the callback
\* what a lock_guard on camLock does in the thread that holds camLock:
\* std::mutex is not recursive and the behaviour is undefined; the thread
\* waits for itself, or lock() throws and the process is terminated
RelockArgs == {"blocks", "terminates"}

\* a lock_guard that lets the thread that holds camLock pass: the call
\* made by the callback goes on and returns
CallbackRelockPasses(relock) ==
    /\ UNCHANGED <<worker, alive>>
    /\ lastCall' = Call("SetExposure", <<minExposure>>, "returned",
                        EmptyImage, <<"callback">>)

\* the worker inside callback_fn at a lock_guard on camLock
CallbackRelock(relock) ==
    /\ worker' = [worker EXCEPT !.pc = "cb_blocked"]
    /\ alive' = (relock = "blocks")
    /\ lastCall' = NoCall

\* callback_fn calls CaptureImage(blocking, callback_fn) of the session
CallbackCaptureImage(blocking, callback_fn) ==
    /\ alive /\ init_ok
    /\ worker.pc = "callback"
    /\ IF CaptureRejected
       THEN /\ lastCall' = Call("CaptureImage",
                                <<B2N(blocking), B2N(callback_fn)>>,
                                "returned", EmptyImage, <<"callback">>)
            /\ UNCHANGED <<waiting, worker>>
       ELSE /\ ThreadsAlive < MaxWorkers
            /\ waiting' = [waiting EXCEPT ![<<blocking, callback_fn>>] = @ + 1]
            /\ lastCall' = IF blocking THEN NoCall
                           ELSE Call("CaptureImage",
                                     <<B2N(blocking), B2N(callback_fn)>>,
                                     "returned", EmptyImage, <<"callback">>)
            /\ worker' = IF blocking THEN [worker EXCEPT !.pc = "cb_blocked"]
                         ELSE worker
    /\ UNCHANGED <<sessionVars, hw, clientVars, alive, reader, benchVars>>

\* callback_fn calls SetExposure(exposureInSeconds) of the session
CallbackSetExposure(exposureInSeconds, relock) ==
    /\ alive /\ init_ok
    /\ worker.pc = "callback"
    /\ IF exposureInSeconds < minExposure \/ exposureInSeconds > maxExposure
       THEN /\ lastCall' = Call("SetExposure", <<exposureInSeconds>>,
                                "returned", EmptyImage, <<"callback">>)
            /\ UNCHANGED <<worker, alive>>
       ELSE CallbackRelock(relock)
    /\ UNCHANGED <<sessionVars, waiting, hw, clientVars, reader, benchVars>>

\* callback_fn calls SetGainRaw(gain) of the session, with a gain inside or
\* outside [minGain, maxGain]
CallbackSetGainRaw(inRange, relock) ==
    /\ alive /\ init_ok
    /\ worker.pc = "callback"
    /\ IF ~inRange
       THEN /\ lastCall' = Call("SetGainRaw", <<B2N(inRange)>>,
                                "returned", EmptyImage, <<"callback">>)
            /\ UNCHANGED <<worker, alive>>
       ELSE CallbackRelock(relock)
    /\ UNCHANGED <<sessionVars, waiting, hw, clientVars, reader, benchVars>>

NextCallback ==
    \/ \E callback_fn \in BOOLEAN : CaptureImage(FALSE, callback_fn)
    \/ \E args \in ThreadArgs, ok \in BOOLEAN : WorkerStart(args, ok)
    \/ \E ok \in BOOLEAN : WorkerArm(ok)
    \/ \E ok \in BOOLEAN : WorkerPoll(ok)
    \/ \E ok \in BOOLEAN, after \in {"SUCCESS", "IDLE"} :
          WorkerDownload(ok, after)
    \/ WorkerCallback
    \/ WorkerExit
    \/ \E s \in {"SUCCESS", "FAILED", "IDLE"} : HwProgress(s)
    \/ \E blocking \in BOOLEAN, callback_fn \in BOOLEAN :
          CallbackCaptureImage(blocking, callback_fn)
    \/ \E e \in ExposureArgs, relock \in RelockArgs :
          CallbackSetExposure(e, relock)
    \/ \E inRange \in BOOLEAN, relock \in RelockArgs :
          CallbackSetGainRaw(inRange, relock)

\* the session under non-blocking captures whose callback calls back into
\* the session
SpecCallback ==
    Init /\ [][NextCallback]_vars

\* ------------------------------------------------- captures that finish
NextLive ==
    \/ \E blocking \in BOOLEAN, callback_fn \in BOOLEAN :
          CaptureImage(blocking, callback_fn)
    \/ JoinReturn
    \/ \E args \in ThreadArgs, ok \in BOOLEAN : WorkerStart(args, ok)
    \/ \E ok \in BOOLEAN : WorkerArm(ok)
    \/ \E ok \in BOOLEAN : WorkerPoll(ok)
    \/ \E ok \in BOOLEAN, after \in {"SUCCESS", "IDLE"} :
          WorkerDownload(ok, after)
    \/ WorkerCallback
    \/ WorkerExit
    \/ \E e \in ExposureArgs : SetExposure(e)
    \/ \E ok \in BOOLEAN : SetExposureLocked(ok)
    \/ \E s \in {"SUCCESS", "FAILED", "IDLE"} : HwProgress(s)

\* a thread that can run keeps running: the worker thread takes each of its
\* steps, the callback returns, a started exposure comes to an end, and a
\* thread that waits for camLock gets it once it stays free
LiveFairness ==
    /\ WF_vars(\E args \in ThreadArgs, ok \in BOOLEAN : WorkerStart(args, ok))
    /\ WF_vars(\E ok \in BOOLEAN : WorkerArm(ok))
    /\ WF_vars(\E ok \in BOOLEAN : WorkerPoll(ok))
    /\ WF_vars(\E ok \in BOOLEAN, after \in {"SUCCESS", "IDLE"} :
                  WorkerDownload(ok, after))
    /\ WF_vars(WorkerCallback)
    /\ WF_vars(WorkerExit)
    /\ WF_vars(\E s \in {"SUCCESS", "FAILED", "IDLE"} : HwProgress(s))
    /\ WF_vars(\E ok \in BOOLEAN : SetExposureLocked(ok))

\* the session under captures and SetExposure calls, with threads that are
\* scheduled, a camera that ends its exposures, and callbacks that return
SpecLive ==
    Init /\ [][NextLive]_vars /\ LiveFairness

InitImage ==
    /\ InitCam
    /\ bufA \in SampleBufs
    /\ bufB \in SampleBufs
    /\ copyPc = <<"idle", "idle">>
    /\ files = {}
    /\ benchCall = NoBenchCall
    /\ preview = NoPreview

NextImage ==
    \/ \E t \in BufNames, sh \in ConstructArgs :
          ImgConstruct(t, sh[1], sh[2], 1)
    \/ \E t \in BufNames, self \in BOOLEAN : ImgAssign(t, self)
    \/ \E t \in BufNames : ImgAdd(t)
    \/ \E t \in BufNames, bins \in ImageBinArgs : ImgBin(t, bins[1], bins[2])
    \/ \E t \in BufNames : ImgFlip(t)
    \/ \E t \in BufNames : ImgClear(t)

\* two CImageData objects under construction, assignment, Add, ApplyBinning,
\* FlipHorizontal and ClearImage, one call at a time
SpecImage ==
    InitImage /\ [][NextImage]_vars

\* buffers that hold an image, and the same buffers after ClearImage
AssignBufs ==
    {b \in SampleBufs : BufHasData(b)}
    \cup {BufClear(b) : b \in {c \in SampleBufs : BufHasData(c)}}

InitAssign ==
    /\ InitCam
    /\ bufA \in AssignBufs
    /\ bufB \in AssignBufs
    /\ copyPc = <<"idle", "idle">>
    /\ files = {}
    /\ benchCall = BenchCall(0, "Assign", "A", <<>>, bufA, bufB, FALSE, "returned")
    /\ preview = NoPreview

NextAssign ==
    \/ \E t \in {1, 2} : AssignSelf(t)
    \/ \E t \in {1, 2} : AssignClear(t)
    \/ \E t \in {1, 2} : AssignLock(t)
    \/ \E t \in {1, 2} : AssignCopy(t)

\* one thread assigning A = B and one assigning B = A
SpecAssign ==
    InitAssign /\ [][NextAssign]_vars

\* the directory out, and with it a file img that has no extension
InitFiles ==
    {{<<DirEntry("out"), 0, TRUE>>},
     {<<DirEntry("out"), 0, TRUE>>, <<FileEntry("out", "img", 0, ""), 0, TRUE>>}}

InitFits ==
    /\ InitCam
    /\ bufA \in {b \in SampleBufs : BufHasData(b)}
    /\ bufB = NoBuf
    /\ copyPc = <<"idle", "idle">>
    /\ files \in InitFiles
    /\ benchCall = NoBenchCall
    /\ preview = NoPreview

NextFits ==
    \E dir \in DirArgs, fname \in NameArgs, fault \in FitsFaults,
       crash \in {"threw", "crashed"} :
        SaveFits(dir, fname, fault, crash)

\* a buffer saved to FITS files
SpecFits ==
    InitFits /\ [][NextFits]_vars

\* ------------------------------------------------------------ the preview
\* what the conversion of a NaN to uint8_t may give
NanArgs == {0, 255}
PreviewBinArgs == {<<1, 1>>, <<2, 1>>, <<2, 2>>}

\* DataMin(), DataMax()
DataMin(b) ==
    IF ~BufHasData(b) THEN MaxPixel
    ELSE LET vals == {b.px[i] : i \in 1..(b.w * b.h)} \cup {MaxPixel}
         IN CHOOSE m \in vals : \A v \in vals : m <= v

DataMax(b) ==
    IF ~BufHasData(b) THEN MaxPixel
    ELSE LET vals == {b.px[i] : i \in 1..(b.w * b.h)} \cup {0}
         IN CHOOSE m \in vals : \A v \in vals : m >= v

\* the three bytes ConvertJPEG stores for the pixel p under autoscale: red
\* for a saturated pixel, orange above max, else the scaled grey level
\* ((p - min) / 0x100) * (0xffff / (float)(max - min)). With max = min the
\* scale is infinite and the product is a NaN, whose conversion is nan
PixelRGB(p, min, max, nan) ==
    IF p = MaxPixel THEN <<255, 0, 0>>
    ELSE IF p > max THEN <<255, 165, 0>>
    ELSE IF max = min THEN <<nan, nan, nan>>
    ELSE LET tmp == (((p - min) \div 256) * MaxPixel) \div (max - min)
         IN <<tmp, tmp, tmp>>

\* the image ConvertJPEG compresses: the size and the bitmap in row order
EncodePixels(b, nan) ==
    <<b.w, b.h,
      [i \in 1..(b.w * b.h) |-> PixelRGB(b.px[i], DataMin(b), DataMax(b), nan)]>>

\* ConvertJPEG(): nothing without data, else m_jpegData is replaced
ConvertJPEG(b, pv, nan) ==
    IF ~BufHasData(b) THEN pv ELSE <<pv[1], <<EncodePixels(b, nan)>>>>

\* the end of Add, ApplyBinning, FlipHorizontal: if (convert_jpeg) ConvertJPEG()
ReEncode(b, pv, nan) ==
    IF pv[1] THEN ConvertJPEG(b, pv, nan) ELSE pv

\* buffer A becomes b and its preview pv, by the call op; the record of the
\* call starts with convert_jpeg before the call
PreviewStep(op, args, b, pv) ==
    /\ copyPc = <<"idle", "idle">>
    /\ benchCall.n < MaxCalls
    /\ bufA' = b
    /\ preview' = pv
    /\ benchCall' = BenchCall(benchCall.n + 1, op, "A",
                              <<B2N(preview[1])>> \o args, bufA, bufB,
                              TRUE, "returned")
    /\ UNCHANGED <<camVars, bufB, copyPc, files>>

\* GetJPEGData(ptr, sz): the first call sets convert_jpeg and converts
GetJPEGData(nan) ==
    PreviewStep("GetJPEGData", <<>>, bufA,
                IF preview[1] THEN preview
                ELSE ConvertJPEG(bufA, <<TRUE, preview[2]>>, nan))

\* A.Add(B): returns at once for a B without data or of another size; an A
\* without data becomes a copy of B by *this = rhs, which clears m_jpegData
\* and convert_jpeg, and returns; else the sum and the conversion
PreviewAdd(nan) ==
    PreviewStep("Add", <<>>, BufAdd(bufA, bufB),
                IF ~BufHasData(bufB) THEN preview
                ELSE IF ~BufHasData(bufA) THEN NoPreview
                ELSE IF bufB.w # bufA.w \/ bufB.h # bufA.h THEN preview
                ELSE ReEncode(BufAdd(bufA, bufB), preview, nan))

\* A.ApplyBinning(binX, binY): returns at once without data or for 1 x 1
PreviewBin(binX, binY, nan) ==
    PreviewStep("ApplyBinning", <<binX, binY>>, BufBin(bufA, binX, binY),
                IF ~BufHasData(bufA) \/ (binX = 1 /\ binY = 1) THEN preview
                ELSE ReEncode(BufBin(bufA, binX, binY), preview, nan))

\* A.FlipHorizontal()
PreviewFlip(nan) ==
    PreviewStep("FlipHorizontal", <<>>, BufFlip(bufA),
                ReEncode(BufFlip(bufA), preview, nan))

InitPreview ==
    /\ InitCam
    /\ bufA \in SampleBufs
    /\ bufB \in {b \in SampleBufs : BufHasData(b)}
    /\ copyPc = <<"idle", "idle">>
    /\ files = {}
    /\ benchCall = NoBenchCall
    /\ preview = NoPreview

NextPreview ==
    \/ \E nan \in NanArgs : GetJPEGData(nan)
    \/ \E nan \in NanArgs : PreviewAdd(nan)
    \/ \E bins \in PreviewBinArgs, nan \in NanArgs :
          PreviewBin(bins[1], bins[2], nan)
    \/ \E nan \in NanArgs : PreviewFlip(nan)

\* a buffer, with or without an image, whose preview is asked for and which
\* is added to, binned and flipped
SpecPreview ==
    InitPreview /\ [][NextPreview]_vars

\* ------------------------------------ two threads working on one buffer
\* the operations two threads make on buffer A; copyPc[t] names the one
\* thread t is inside of
BufferOps ==
    {"Add", "ApplyBinning", "FlipHorizontal", "FindOptimumExposure",
     "GetStats", "SaveFits"}

\* the operations that hold m_mutex of the buffer while they run: GetStats
\* (372) and SaveFits (796); Add, ApplyBinning, FlipHorizontal and
\* FindOptimumExposure have no lock_guard
TakesMutex(op) ==
    op \in {"GetStats", "SaveFits"}

\* the operations that write the pixels or the metadata
WritesBuffer(op) ==
    op \in {"Add", "ApplyBinning", "FlipHorizontal"}

MutexHeld ==
    \E t \in {1, 2} : TakesMutex(copyPc[t])

\* thread t and the other thread are inside operations of which one writes
DataRace(t) ==
    /\ copyPc[OtherThread(t)] \in BufferOps
    /\ WritesBuffer(copyPc[t]) \/ WritesBuffer(copyPc[OtherThread(t)])

\* buffer A after op ran alone
SharedResult(op) ==
    IF op = "Add" THEN BufAdd(bufA, bufB)
    ELSE IF op = "ApplyBinning" THEN BufBin(bufA, 2, 2)
    ELSE IF op = "FlipHorizontal" THEN BufFlip(bufA)
    ELSE bufA

\* the files after op: SaveFits(false, "out", "img") writes a file
SharedFiles(op, n) ==
    IF op = "SaveFits"
    THEN files \cup {<<FileEntry("out", "img", FreeCounter(files, "out", "img", 0), ".fits"), n, TRUE>>}
    ELSE files

\* thread t calls op on buffer A; an operation with a lock_guard waits for
\* m_mutex
SharedEnter(t, op) ==
    /\ copyPc[t] = "idle"
    /\ benchCall.n < MaxCalls
    /\ benchCall.outcome # "crashed"
    /\ TakesMutex(op) => ~MutexHeld
    /\ copyPc' = [copyPc EXCEPT ![t] = op]
    /\ benchCall' = BenchCall(benchCall.n + 1, op, "A", <<t>>, bufA, bufB,
                              FALSE, "entered")
    /\ UNCHANGED <<camVars, bufA, bufB, files, preview>>

\* the operation of thread t completes. In a data race the outcome is not
\* defined: the call may return as if it had run alone, or the process dies
SharedLeave(t, outcome) ==
    /\ copyPc[t] \in BufferOps
    /\ benchCall.outcome # "crashed"
    /\ outcome = "crashed" => DataRace(t)
    /\ bufA' = SharedResult(copyPc[t])
    /\ files' = SharedFiles(copyPc[t], benchCall.n)
    /\ copyPc' = [copyPc EXCEPT ![t] = "idle"]
    /\ benchCall' = BenchCall(benchCall.n, copyPc[t], "A", <<t>>, bufA, bufB,
                              TRUE, outcome)
    /\ UNCHANGED <<camVars, bufB, preview>>

InitShared ==
    /\ InitCam
    /\ bufA \in {b \in SampleBufs : BufHasData(b)}
    /\ bufB \in {b \in SampleBufs : BufHasData(b)}
    /\ bufA.w = bufB.w /\ bufA.h = bufB.h
    /\ copyPc = <<"idle", "idle">>
    /\ files = {<<DirEntry("out"), 0, TRUE>>}
    /\ benchCall = NoBenchCall
    /\ preview = NoPreview

NextShared ==
    \/ \E t \in {1, 2}, op \in BufferOps : SharedEnter(t, op)
    \/ \E t \in {1, 2}, outcome \in {"returned", "crashed"} :
          SharedLeave(t, outcome)

\* one buffer used by two threads
SpecShared ==
    InitShared /\ [][NextShared]_vars

\* an image of a size of ShapeArgs with an exposure time and bin factors
InitExposure ==
    /\ InitCam
    /\ \E sh \in {a \in ShapeArgs : a[1] > 0}, seed \in SeedArgs,
          e \in OptExposureArgs, bins \in OptBinArgs :
          bufA = BufNew(sh[1], sh[2], SamplePixels(sh[1], sh[2], seed),
                        e, bins[1], bins[2], 0, 0)
    /\ bufB = NoBuf
    /\ copyPc = <<"idle", "idle">>
    /\ files = {}
    /\ benchCall = NoBenchCall
    /\ preview = NoPreview

NextExposure ==
    \E withBin \in BOOLEAN, percentilePixel \in PercentileArgs,
       pixelTarget \in PixelTargetArgs, maxAllowedExposure \in MaxExposureArgs,
       maxAllowedBin \in MaxBinArgs, numPixelExclusion \in ExclusionArgs,
       pixelTargetUncertainty \in UncertaintyArgs, wild \in WildArgs :
        OptimumCall(withBin, percentilePixel, pixelTarget, maxAllowedExposure,
                    maxAllowedBin, numPixelExclusion, pixelTargetUncertainty,
                    wild)

\* FindOptimumExposure on images of several exposure times and bin factors
SpecExposure ==
    InitExposure /\ [][NextExposure]_vars

\* ================================================================ claims
\* the texts CaptureThread leaves in status_ when a capture has failed
FailureTexts ==
    {StQueryFailed, StAlreadyWorking, StArmFailed, StExposureFailed,
     StNoData, StDownloadFailed, StUnknown}

\* the worker has returned from CaptureThread and not yet released camLock
Ended ==
    worker.pc = "unlock"

\* C1: a CaptureImage call made while capturing is true returns an empty
\* buffer, launches no worker, makes no hardware call and leaves status,
\* last image, stored exposure and stored ROI/bin as they were
C1_RejectedCaptureChangesNothing ==
    [][(capturing /\ clientPc = "idle" /\ lastCall'.op = "CaptureImage")
        => /\ ~HasData(lastCall'.ret)
           /\ lastCall'.sdk = <<>>
           /\ waiting' = waiting
           /\ worker' = worker
           /\ hw' = hw
           /\ status_' = status_
           /\ image_data' = image_data
           /\ exposure_' = exposure_
           /\ roiVars' = roiVars
           /\ clientPc' = "idle"]_vars

\* a call has just been rejected while a worker polls the running exposure
C1_Witness ==
    /\ capturing
    /\ worker.pc = "poll"
    /\ lastCall.op = "CaptureImage"
    /\ lastCall.args[1] = 0
    /\ ThreadsAlive = 1

\* C2: at most one capture worker thread exists at any time
C2_SingleWorker ==
    ThreadsAlive <= 1

\* C3: a capture that was cancelled while exposing never ends as a
\* successful capture
C3_CancelledNeverSucceeds ==
    (Ended /\ worker.cancelled) => worker.outcome # "success"

C5_FailedCaptureEffects ==
    (Ended /\ (worker.outcome # "success" \/ worker.pollErr))
        => /\ image_data = worker.prevImage
           /\ worker.blocking => ~HasData(clientData)
           /\ ~capturing
           /\ status_ \in FailureTexts

\* C6: SetBinningAndROI called while a capture is in progress changes
\* neither the ROI/bin on the camera nor the stored ROI/bin
C6_RoiRejectedWhileCapturing ==
    [][(capturing /\ lastCall'.op = "SetBinningAndROI")
        => (roiVars' = roiVars /\ hw' = hw)]_vars

\* C7: the stored ROI size and bin factor equal the ROI size and bin factor
\* configured on the camera
C7_StoredMatchesHardware ==
    /\ binningX_ = hw.bin
    /\ binningY_ = hw.bin
    /\ roiRight - roiLeft = hw.w * hw.bin
    /\ roiBottom - roiTop = hw.h * hw.bin

\* C8: the stored ROI boundaries are exact multiples of the stored bin
\* factor and the stored X and Y bin factors are equal
C8_BoundsMultiplesOfBin ==
    /\ binningX_ = binningY_
    /\ binningX_ >= 1
    /\ roiLeft % binningX_ = 0
    /\ roiRight % binningX_ = 0
    /\ roiTop % binningY_ = 0
    /\ roiBottom % binningY_ = 0

\* a request whose left bound 33 is no multiple of the bin factor 2 has
\* been stored, normalised to 32
C8_Witness ==
    /\ lastCall.op = "SetBinningAndROI"
    /\ lastCall.outcome = "returned"
    /\ binningX_ = 2
    /\ roiLeft = 32
    /\ roiRight = CCDWidth_

LastSdkFailed ==
    /\ lastCall.sdk # <<>>
    /\ lastCall.sdk[Len(lastCall.sdk)] \in
          {"ASIGetROIFormat:error", "ASISetROIFormat:error"}

RejectedRequest(call) ==
    \/ /\ call.op = "SetExposure"
       /\ \/ call.args[1] < minExposure
          \/ call.args[1] > maxExposure
          \/ call.sdk = <<"ASISetControlValue:error">>
    \/ /\ call.op = "SetBinningAndROI"
       /\ \/ call.args[1] # call.args[2]
          \/ call.args[1] \notin SupportedBinSet

\* C10: a refused configuration request leaves the stored exposure, the
\* stored ROI/bin and the configuration of the camera as they were
C10_RejectedConfigNoMutation ==
    [][RejectedRequest(lastCall')
        => (exposure_' = exposure_ /\ roiVars' = roiVars /\ hw' = hw)]_vars

\* the camera has just refused an exposure that is in range
C10_Witness ==
    /\ lastCall.op = "SetExposure"
    /\ lastCall.args = <<2000000>>
    /\ lastCall.sdk = <<"ASISetControlValue:error">>
    /\ status_ = StSetExposureFailed
    /\ exposure_ = 1000

\* C11: when a blocking CaptureImage call returns, its worker has finished,
\* the capturing flag is false, camLock is free, and a buffer with data is
\* the session's last image
C11_BlockingReturnsAfterCapture ==
    [][(clientPc = "join" /\ clientPc' = "idle")
        => /\ ~capturing'
           /\ ~camLock'
           /\ HasData(lastCall'.ret) => image_data' = <<lastCall'.ret>>]_vars

\* C12: the pointer a reader got from GetLastImage never refers to a frame
\* that has been released
C12_ReaderSeesLiveFrame ==
    reader # "released"

\* the buffer the last CImageData call was made on, after the call
Result ==
    BufOf(benchCall.target)

WellFormed(b) ==
    /\ BufHasData(b) <=> (b.w > 0 /\ b.h > 0)
    /\ Len(b.px) = b.w * b.h

\* C15: after construction and any sequence of assignment, Add, ApplyBinning,
\* FlipHorizontal and ClearImage a buffer has data exactly when its width and
\* height are positive, and its array has width times height pixels; a
\* construction with positive sizes gives a buffer of that size with data, one
\* with a non-positive size gives an empty buffer.
C15_HasDataIffDimensions ==
    /\ WellFormed(bufA)
    /\ WellFormed(bufB)
    /\ benchCall.op = "Construct"
         => IF benchCall.args[1] > 0 /\ benchCall.args[2] > 0
            THEN /\ BufHasData(Result)
                 /\ Result.w = benchCall.args[1]
                 /\ Result.h = benchCall.args[2]
            ELSE /\ ~BufHasData(Result)
                 /\ Result.w = 0
                 /\ Result.h = 0

\* C17: ApplyBinning(2,2) leaves a buffer of (width/2) x (height/2) pixels,
\* each the sum of its four source pixels or 0xFFFF if that is smaller;
\* ApplyBinning(1,1) changes neither the size nor any pixel.
C17_BinningSumsAndSaturates ==
    benchCall.op = "ApplyBinning" /\ BufHasData(benchCall.pre)
      => LET pre == benchCall.pre
             Sum4(R, C) ==
                 At(pre, 2 * R, 2 * C) + At(pre, 2 * R, 2 * C + 1)
                 + At(pre, 2 * R + 1, 2 * C) + At(pre, 2 * R + 1, 2 * C + 1)
         IN /\ benchCall.args = <<2, 2>>
                 => /\ Result.w = pre.w \div 2
                    /\ Result.h = pre.h \div 2
                    /\ Len(Result.px) = (pre.w \div 2) * (pre.h \div 2)
                    /\ \A R \in 0..(Result.h - 1), C \in 0..(Result.w - 1) :
                          At(Result, R, C) =
                              IF Sum4(R, C) < MaxPixel THEN Sum4(R, C)
                              ELSE MaxPixel
            /\ benchCall.args = <<1, 1>> => Result = pre

C17_Witness ==
    /\ benchCall.op = "ApplyBinning"
    /\ benchCall.args = <<2, 2>>
    /\ benchCall.pre.w = 3
    /\ benchCall.pre.h = 2
    /\ Result.w = 1
    /\ Result.px = <<MaxPixel>>

\* C18: for two buffers with data and equal sizes, A.Add(B) sets every pixel of
\* A to a+b or 0xFFFF if that is smaller and the exposure time of A to the sum
\* of both, and B.Add(A) gives the same pixels and exposure time.
C18_AddSaturatesAndCommutes ==
    (/\ benchCall.op = "Add"
     /\ BufHasData(benchCall.pre)
     /\ BufHasData(benchCall.other)
     /\ benchCall.pre.w = benchCall.other.w
     /\ benchCall.pre.h = benchCall.other.h)
      => LET a == benchCall.pre
             b == benchCall.other
         IN /\ Result.w = a.w
            /\ Result.h = a.h
            /\ Len(Result.px) = a.w * a.h
            /\ \A i \in 1..(a.w * a.h) :
                  Result.px[i] = IF a.px[i] + b.px[i] < MaxPixel
                                 THEN a.px[i] + b.px[i] ELSE MaxPixel
            /\ Result.exposureTime = a.exposureTime + b.exposureTime
            /\ BufAdd(b, a).px = Result.px
            /\ BufAdd(b, a).exposureTime = Result.exposureTime

C18_Witness ==
    /\ benchCall.op = "Add"
    /\ BufHasData(benchCall.pre)
    /\ BufHasData(benchCall.other)
    /\ benchCall.pre.w = 3
    /\ benchCall.other.w = 3
    /\ benchCall.pre.px # benchCall.other.px
    /\ \E i \in 1..6 : Result.px[i] = MaxPixel
    /\ \E i \in 1..6 : Result.px[i] = 20000
    /\ Result.exposureTime = 3
\* C16: assignment takes the locks of both buffers without deadlock, so a
\* thread of A = B and a thread of B = A can always go on until both are done;
\* after A = B with no other writer A has the pixels, the sizes and the
\* metadata of B and B is as before; a self-assignment changes nothing.
C16_AssignCopiesWithoutDeadlock ==
    /\ \A t \in {1, 2} :
          copyPc[t] \in {"idle", "cleared"}
            => MutexesFree \/ copyPc[OtherThread(t)] = "locked"
    /\ copyPc = <<"done", "idle">>
         => /\ bufB = benchCall.other
            /\ bufA.px = bufB.px
            /\ bufA.alloc = bufB.alloc
            /\ bufA.w = bufB.w
            /\ bufA.h = bufB.h
            /\ bufA.exposureTime = bufB.exposureTime
            /\ bufA.binX = bufB.binX
            /\ bufA.binY = bufB.binY
            /\ bufA.imgLeft = bufB.imgLeft
            /\ bufA.imgTop = bufB.imgTop
    /\ copyPc = <<"self", "idle">> => bufA = benchCall.pre
\* the file a SaveFits call wrote, if any
Written(n) ==
    {f \in files : f[2] = n}

\* C13: a second SaveFits call with the directory and the resolved name of a
\* call that succeeded succeeds too and writes another file, one with a
\* numeric suffix; no SaveFits call changes a file that exists.
C13_SecondSaveGetsSuffix ==
    [][/\ files \subseteq files'
       /\ (/\ benchCall.op = "SaveFits"
           /\ benchCall.ret
           /\ benchCall'.op = "SaveFits"
           /\ benchCall'.args = benchCall.args)
            => /\ benchCall'.ret
               /\ \E f \in files' \ files : f[1][3] > 0]_vars

\* C14: SaveFits never throws; it returns true only when the file was created
\* and the header and the pixels were written, and false when the creation or
\* a later write failed.
C14_TrueOnlyWhenWritten ==
    benchCall.op = "SaveFits"
      => /\ benchCall.outcome = "returned"
         /\ benchCall.ret
              <=> \E f \in Written(benchCall.n) : f[3]
\* the FindOptimumExposure call made, in either form
OptimumCalled ==
    benchCall.op \in {"FindOptimumExposure", "FindOptimumExposureNoBin"}

\* the call came back with its results
OptimumReturned ==
    OptimumCalled /\ benchCall.outcome = "returned"

\* the percentile value of the call and whether it is within the tolerance
MeasuredValue ==
    PercentileValue(benchCall.pre, benchCall.args[3], benchCall.args[7],
                    benchCall.args[9])

WithinTolerance ==
    /\ MeasuredValue - benchCall.args[4] < benchCall.args[8]
    /\ benchCall.args[4] - MeasuredValue < benchCall.args[8]

\* C19: when the percentile value is nearer to the target than the tolerance,
\* FindOptimumExposure returns exactly the exposure time and the bin factor of
\* the buffer, for every exposure time, bin, exposure ceiling and bin ceiling.
C19_InToleranceReturnsCurrent ==
    (OptimumReturned /\ WithinTolerance)
      => /\ benchCall.args[1] = benchCall.pre.exposureTime
         /\ benchCall.op = "FindOptimumExposure"
              => benchCall.args[2] = benchCall.pre.binX

Projected ==
    IF MeasuredValue = 0 THEN Infinity
    ELSE (benchCall.args[4] * benchCall.pre.exposureTime) \div MeasuredValue

\* the call may change the bin: equal bin factors and a bin ceiling
BinningEnabled ==
    /\ benchCall.op = "FindOptimumExposure"
    /\ benchCall.pre.binX = benchCall.pre.binY
    /\ benchCall.args[6] >= 1

\* C21: with binning enabled and a projected exposure so far below the
\* ceiling that it stays below it at bin 1, FindOptimumExposure halves the bin
\* down to 1 and multiplies the exposure by 4 for each halving; the bin it
\* returns is never below 1 and the exposure never above the ceiling.
C21_BinHalvedDownToOne ==
    (BinningEnabled /\ benchCall.outcome = "returned" /\ ~WithinTolerance)
      => LET bin == benchCall.pre.binX
         IN /\ benchCall.args[2] >= 1
            /\ benchCall.args[1] <= benchCall.args[5]
            /\ Projected * bin * bin < benchCall.args[5]
                 => /\ benchCall.args[2] = 1
                    /\ benchCall.args[1] =
                         ((Projected * bin * bin) \div TicksPerMs) * TicksPerMs
\* C22: for every buffer with pixels and every percentile, target, tolerance,
\* exclusion count, exposure ceiling of at least 0 and bin ceiling of at least
\* 1, FindOptimumExposure returns, with an exposure between 0 and the ceiling
\* and a bin between 1 and the bin ceiling, also for a measured value of 0.
C22_AlwaysReturnsWithinBounds ==
    (OptimumCalled /\ benchCall.args[5] >= 0)
      => /\ benchCall.outcome = "returned"
         /\ 0 <= benchCall.args[1]
         /\ benchCall.args[1] <= benchCall.args[5]
         /\ (benchCall.op = "FindOptimumExposure" /\ benchCall.args[6] >= 1)
              => /\ 1 <= benchCall.args[2]
                 /\ benchCall.args[2] <= benchCall.args[6]

\* C30: the index at which FindOptimumExposure reads the sorted copy of the
\* N pixels is between 0 and N - 1 for every percentile and every exclusion
\* count, also for an exclusion count of N or more.
C30_IndexWithinSortedCopy ==
    OptimumCalled
      => IndexInRange(benchCall.pre,
                      PercentileIndex(benchCall.pre, benchCall.args[3],
                                      benchCall.args[7]))

\* C23: the exposure time, bin factors, origin, width and height of an image
\* that was captured with success are those of the session's exposure and
\* ROI/bin configuration at the moment the exposure was armed, also when
\* SetExposure or SetBinningAndROI is called while the exposure runs.
C23_MetadataFromArmedConfig ==
    (worker.pc = "unlock" /\ worker.outcome = "success")
      => LET armed == benchCall.args
             img == image_data[1]
         IN /\ img.exposureTime = armed[1]
            /\ img.binX = armed[6]
            /\ img.binY = armed[7]
            /\ img.imgLeft = CDiv(armed[2], armed[6])
            /\ img.imgTop = CDiv(armed[4], armed[7])
            /\ img.w = CDiv(armed[3] - armed[2], armed[6])
            /\ img.h = CDiv(armed[5] - armed[4], armed[7])

C24_BufferOperationsSerialized ==
    ~(copyPc[1] \in BufferOps /\ copyPc[2] \in BufferOps)

\* C26: once the preview is enabled on a buffer, after every Add,
\* ApplyBinning and FlipHorizontal (an Add into an empty buffer included)
\* the stored preview is the encoding of the pixels the buffer holds now.
C26_PreviewFollowsPixels ==
    (/\ benchCall.op \in {"Add", "ApplyBinning", "FlipHorizontal"}
     /\ benchCall.args[1] = 1
     /\ BufHasData(bufA))
      => \E nan \in NanArgs : preview = <<TRUE, <<EncodePixels(bufA, nan)>>>>

\* C27: the capturing flag is true only while a worker thread holds camLock
\* between the arming of the exposure and its return; every return of a
\* worker leaves the flag false before camLock is released; the flag is
\* false whenever no worker holds the lock.
C27_FlagOnlyUnderLock ==
    /\ capturing => worker.pc \in {"poll", "download", "callback"}
    /\ worker.pc \in {"none", "arm", "unlock"} => ~capturing
    /\ ~camLock => ~capturing

C27_Witness ==
    /\ worker.pc = "unlock"
    /\ worker.outcome = "download_failed"
    /\ ~capturing
    /\ ThreadsAlive = 2

\* C28: the callback of a non-blocking capture runs while the worker holds
\* camLock and capturing is true. A CaptureImage call made by the callback is
\* rejected: it starts no thread and returns an empty image. A SetExposure or
\* SetGain call made by the callback returns only when it refused its
\* argument; otherwise it never gets camLock: the worker stays where it is,
\* with the lock held and the flag true.
C28_CallbackRunsUnderLock ==
    [][/\ worker.pc \in {"callback", "cb_blocked"} => camLock /\ capturing
       /\ (/\ worker.pc = "callback"
           /\ lastCall'.op = "CaptureImage"
           /\ lastCall'.sdk = <<"callback">>)
            => /\ waiting' = waiting
               /\ worker' = worker
               /\ lastCall'.ret = EmptyImage
       /\ (/\ worker.pc = "callback"
           /\ lastCall'.op = "SetExposure"
           /\ lastCall'.sdk = <<"callback">>)
            => /\ \/ lastCall'.args[1] < minExposure
                  \/ lastCall'.args[1] > maxExposure
               /\ exposure_' = exposure_
       /\ (/\ worker.pc = "callback"
           /\ lastCall'.op = "SetGainRaw"
           /\ lastCall'.sdk = <<"callback">>)
            => lastCall'.args[1] = 0
       /\ (/\ worker.pc = "callback"
           /\ worker'.pc = "cb_blocked")
            => camLock' /\ capturing'
       /\ worker.pc = "cb_blocked"
            => worker' = worker /\ capturing']_vars

C28_Witness ==
    /\ worker.pc = "cb_blocked"
    /\ alive
    /\ capturing
    /\ lastCall.op = "CaptureImage"
    /\ ThreadsAlive = 1

\* C29: when the camera ends every exposure it started (or a status poll
\* fails) and the callback returns, a worker that took camLock comes to its
\* end with capturing false and camLock released, and a SetExposure call
\* that waits for camLock goes on and returns.
C29_CaptureFinishes ==
    /\ camLock ~> (~camLock /\ ~capturing)
    /\ (clientPc = "setexp") ~> (clientPc = "idle")

C29_Witness ==
    /\ clientPc = "setexp"
    /\ worker.pc = "poll"
    /\ capturing
    /\ hw.status = "WORKING"
====
